---------------------------- MODULE Spec2Model ----------------------------
(***************************************************************************)
(* A model of piebot.py: the conditioned sound-change engine, the era      *)
(* stages built on it, and the spelling generator.                         *)
(*                                                                         *)
(* A phone is a string.  Python tests phones against regular expressions   *)
(* over the space-joined text, so the text is modelled character by        *)
(* character: CharsOf gives the characters of every phone token, a text is *)
(* a sequence of one-character strings, and a regular expression is a      *)
(* small syntax tree interpreted by Ends.                                  *)
(***************************************************************************)
EXTENDS Integers, Sequences, FiniteSets, TLC

VARIABLES
  op,             \* the operation that ran last ("none" before any)
  inp,            \* the phone sequence it was given
  out,            \* the phone sequence it returned
  err,            \* "none", or the exception it raised
  rule,           \* sound_change: the index in EngineRules of the rule applied
  mode,           \* "entry": inside generate_entry; "call": a function called directly
  final_e,        \* the final_e flag handed to generate_spelling
  spelling_model, \* the p2g model: phone string -> (letters -> count)
  combinations,   \* list(pron_breaker(pron))
  spellings,      \* generate_spelling's list of (new_spelling, spelling_score)
  top_five,       \* what generate_spelling returned
  spelling        \* generate_entry's pie_word['spelling']

vars == <<op, inp, out, err, rule, mode, final_e, spelling_model, combinations,
          spellings, top_five, spelling>>

\* the variables of the spelling generator
spell_vars == <<final_e, spelling_model, combinations, spellings, top_five, spelling>>

(***************************************************************************)
(* Phone tokens and their characters.                                      *)
(***************************************************************************)
CharsOf ==
  "" :> <<>> @@
  ">" :> <<">">> @@
  ">h" :> <<">", "h">> @@
  "@" :> <<"@">> @@
  "A" :> <<"A">> @@
  "A:" :> <<"A", ":">> @@
  "D" :> <<"D">> @@
  "E" :> <<"E">> @@
  "E:" :> <<"E", ":">> @@
  "Eu" :> <<"E", "u">> @@
  "G" :> <<"G">> @@
  "Gw" :> <<"G", "w">> @@
  "IO" :> <<"I", "O">> @@
  "N" :> <<"N">> @@
  "O" :> <<"O">> @@
  "O:" :> <<"O", ":">> @@
  "OI" :> <<"O", "I">> @@
  "Ou" :> <<"O", "u">> @@
  "S" :> <<"S">> @@
  "T" :> <<"T">> @@
  "V" :> <<"V">> @@
  "Z" :> <<"Z">> @@
  "Zw" :> <<"Z", "w">> @@
  "\\H" :> <<"\\", "H">> @@
  "a" :> <<"a">> @@
  "a:" :> <<"a", ":">> @@
  "aI" :> <<"a", "I">> @@
  "aU" :> <<"a", "U">> @@
  "ae" :> <<"a", "e">> @@
  "ae:" :> <<"a", "e", ":">> @@
  "ai" :> <<"a", "i">> @@
  "ai:" :> <<"a", "i", ":">> @@
  "au" :> <<"a", "u">> @@
  "au:" :> <<"a", "u", ":">> @@
  "b" :> <<"b">> @@
  "bh" :> <<"b", "h">> @@
  "d" :> <<"d">> @@
  "dZ" :> <<"d", "Z">> @@
  "dh" :> <<"d", "h">> @@
  "e" :> <<"e">> @@
  "e:" :> <<"e", ":">> @@
  "eI" :> <<"e", "I">> @@
  "eI:" :> <<"e", "I", ":">> @@
  "ea" :> <<"e", "a">> @@
  "eo" :> <<"e", "o">> @@
  "eo:" :> <<"e", "o", ":">> @@
  "eu" :> <<"e", "u">> @@
  "eu:" :> <<"e", "u", ":">> @@
  "f" :> <<"f">> @@
  "g" :> <<"g">> @@
  "g_>" :> <<"g", "_", ">">> @@
  "g_>h" :> <<"g", "_", ">", "h">> @@
  "gh" :> <<"g", "h">> @@
  "gw" :> <<"g", "w">> @@
  "gwh" :> <<"g", "w", "h">> @@
  "h" :> <<"h">> @@
  "h1" :> <<"h", "1">> @@
  "h2" :> <<"h", "2">> @@
  "h3" :> <<"h", "3">> @@
  "i" :> <<"i">> @@
  "i:" :> <<"i", ":">> @@
  "i_r\\" :> <<"i", "_", "r", "\\">> @@
  "ie" :> <<"i", "e">> @@
  "io" :> <<"i", "o">> @@
  "io:" :> <<"i", "o", ":">> @@
  "iu" :> <<"i", "u">> @@
  "j" :> <<"j">> @@
  "ju" :> <<"j", "u">> @@
  "k" :> <<"k">> @@
  "k_>" :> <<"k", "_", ">">> @@
  "kw" :> <<"k", "w">> @@
  "l" :> <<"l">> @@
  "m" :> <<"m">> @@
  "n" :> <<"n">> @@
  "o" :> <<"o">> @@
  "o:" :> <<"o", ":">> @@
  "oU" :> <<"o", "U">> @@
  "oe" :> <<"o", "e">> @@
  "oe:" :> <<"o", "e", ":">> @@
  "oi" :> <<"o", "i">> @@
  "oi:" :> <<"o", "i", ":">> @@
  "ou" :> <<"o", "u">> @@
  "ou:" :> <<"o", "u", ":">> @@
  "p" :> <<"p">> @@
  "r\\" :> <<"r", "\\">> @@
  "r\\_i" :> <<"r", "\\", "_", "i">> @@
  "r\\_i:" :> <<"r", "\\", "_", "i", ":">> @@
  "r\\_ie" :> <<"r", "\\", "_", "i", "e">> @@
  "r\\_io" :> <<"r", "\\", "_", "i", "o">> @@
  "r\\_io:" :> <<"r", "\\", "_", "i", "o", ":">> @@
  "r\\_iu" :> <<"r", "\\", "_", "i", "u">> @@
  "s" :> <<"s">> @@
  "s_k_>" :> <<"s", "_", "k", "_", ">">> @@
  "t" :> <<"t">> @@
  "tS" :> <<"t", "S">> @@
  "u" :> <<"u">> @@
  "u:" :> <<"u", ":">> @@
  "ui" :> <<"u", "i">> @@
  "v" :> <<"v">> @@
  "w" :> <<"w">> @@
  "wh" :> <<"w", "h">> @@
  "x" :> <<"x">> @@
  "xw" :> <<"x", "w">> @@
  "y" :> <<"y">> @@
  "y:" :> <<"y", ":">> @@
  "z" :> <<"z">>

Phones == DOMAIN CharsOf

\* the token spelled by a sequence of characters
PhoneOf(cs) == CHOOSE p \in Phones : CharsOf[p] = cs

RECURSIVE Join(_)
\* ' '.join(pron), as a sequence of characters
Join(pron) ==
  IF pron = <<>> THEN <<>>
  ELSE IF Len(pron) = 1 THEN CharsOf[pron[1]]
  ELSE CharsOf[pron[1]] \o <<" ">> \o Join(Tail(pron))

(***************************************************************************)
(* Regular expressions (the subset of Python's re that the program uses).  *)
(***************************************************************************)
ReAny      == [t |-> "any"]
ReBol      == [t |-> "bol"]
ReEol      == [t |-> "eol"]
ReIn(S)    == [t |-> "in", s |-> S]
ReNotIn(S) == [t |-> "notin", s |-> S]
ReStr(cs)  == [t |-> "str", cs |-> cs]
ReSeq(rs)  == [t |-> "seq", rs |-> rs]
ReAlt(rs)  == [t |-> "alt", rs |-> rs]
ReToks(ps) == [t |-> "toks", ps |-> ps]
ReStar(r)  == [t |-> "star", r |-> r]
RePlus(r)  == [t |-> "plus", r |-> r]
ReAnyStar  == ReStar(ReAny)

RECURSIVE Ends(_, _, _)
RECURSIVE StarEnds(_, _, _, _)
\* the positions (0..Len(text)) where a match of r can end when it starts at
\* a position of S
Ends(r, text, S) ==
  CASE r.t = "any"   -> {i + 1 : i \in {j \in S : j < Len(text)}}
    [] r.t = "bol"   -> S \cap {0}
    [] r.t = "eol"   -> S \cap {Len(text)}
    [] r.t = "in"    -> {i + 1 : i \in {j \in S : j < Len(text) /\ text[j + 1] \in r.s}}
    [] r.t = "notin" -> {i + 1 : i \in {j \in S : j < Len(text) /\ text[j + 1] \notin r.s}}
    [] r.t = "str"   -> {i + Len(r.cs) : i \in {j \in S : j + Len(r.cs) <= Len(text)
                                    /\ SubSeq(text, j + 1, j + Len(r.cs)) = r.cs}}
    [] r.t = "seq"   -> IF r.rs = <<>> THEN S
                        ELSE Ends(ReSeq(Tail(r.rs)), text, Ends(Head(r.rs), text, S))
    [] r.t = "alt"   -> UNION {Ends(r.rs[k], text, S) : k \in DOMAIN r.rs}
    [] r.t = "toks"  -> UNION {Ends(ReStr(CharsOf[p]), text, S) : p \in r.ps}
    [] r.t = "star"  -> IF r.r.t = "any"
                        THEN {k \in 0..Len(text) : \E j \in S : j <= k}
                        ELSE StarEnds(r.r, text, S, S)
    [] r.t = "plus"  -> LET first == Ends(r.r, text, S)
                        IN StarEnds(r.r, text, first, first)

StarEnds(r, text, frontier, acc) ==
  LET new == Ends(r, text, frontier) \ acc
  IN IF new = {} THEN acc ELSE StarEnds(r, text, new, acc \cup new)

\* pattern.search(text): is there a match anywhere in text
search(pattern, text) == Ends(pattern, text, 0..Len(text)) # {}

(***************************************************************************)
(* Pronunciation mapping sets and the patterns built from them.            *)
(***************************************************************************)
voiceless == {"p", "t", "k", "f", "T", "x", "kw"}

vowels == {"a", "e", "i", "o", "u", "a:", "e:", "i:", "o:", "u:", "y", "y:", "oe", "oe:",
           "E", "E:", "A", "A:", "O", "O:", "ae", "ae:",
           "eI", "ai", "oi", "eu", "au", "ou",
           "eI:", "ai:", "oi:", "eu:", "au:", "ou:"}

\* the characters of the class '[^(' + ')|('.join(tokens) + ')]'
ClassChars(tokens) ==
  {"(", ")", "|"} \cup UNION {{CharsOf[p][k] : k \in DOMAIN CharsOf[p]} : p \in tokens}

VOICELESS_PATTERN == ReToks(voiceless)
VOICED_PATTERN    == ReNotIn(ClassChars(voiceless))
VOWEL_PATTERN     == ReToks(vowels)
CONSONANT_PATTERN == ReNotIn(ClassChars(vowels))

\* the pattern '.*' that every unconditioned rule passes
ANY == ReAnyStar

(***************************************************************************)
(* sound_change: the general conditioned sound change.                     *)
(***************************************************************************)
RECURSIVE sound_change_loop(_, _, _, _, _, _)
sound_change_loop(orig_pron, phone_maps, prior_pattern, posterior_pattern, count, new_pron) ==
  IF count > Len(orig_pron) THEN new_pron
  ELSE
    LET phone == orig_pron[count]
        prior_phones == Join(SubSeq(orig_pron, 1, count - 1))
        posterior_phones == Join(SubSeq(orig_pron, count + 1, Len(orig_pron)))
        emitted ==
          IF phone \notin DOMAIN phone_maps THEN phone
          ELSE IF search(prior_pattern, prior_phones)
                  /\ search(posterior_pattern, posterior_phones)
               THEN phone_maps[phone]
               ELSE phone
    IN sound_change_loop(orig_pron, phone_maps, prior_pattern, posterior_pattern,
                         count + 1, Append(new_pron, emitted))

NotEmpty(p) == p # ""

RECURSIVE sound_change_rewritten_loop(_, _, _, _, _, _)
\* sound_change with the prior context read from the output built so far
sound_change_rewritten_loop(orig_pron, phone_maps, prior_pattern, posterior_pattern, count, new_pron) ==
  IF count > Len(orig_pron) THEN new_pron
  ELSE
    LET phone == orig_pron[count]
        prior_phones == Join(SelectSeq(new_pron, NotEmpty))
        posterior_phones == Join(SubSeq(orig_pron, count + 1, Len(orig_pron)))
        emitted ==
          IF phone \notin DOMAIN phone_maps THEN phone
          ELSE IF search(prior_pattern, prior_phones)
                  /\ search(posterior_pattern, posterior_phones)
               THEN phone_maps[phone]
               ELSE phone
    IN sound_change_rewritten_loop(orig_pron, phone_maps, prior_pattern, posterior_pattern,
                                   count + 1, Append(new_pron, emitted))

sound_change_rewritten_context(orig_pron, phone_maps, prior_context, posterior_context) ==
  SelectSeq(sound_change_rewritten_loop(orig_pron, phone_maps, prior_context,
                                        posterior_context, 1, <<>>),
            NotEmpty)

sound_change(orig_pron, phone_maps, prior_context, posterior_context) ==
  SelectSeq(sound_change_loop(orig_pron, phone_maps, prior_context, posterior_context,
                              1, <<>>),
            NotEmpty)

(***************************************************************************)
(* Text helpers: str.replace, str.split, and the literals they are given.  *)
(***************************************************************************)
RECURSIVE Replace(_, _, _)
\* text.replace(old, new): leftmost, non-overlapping occurrences
Replace(text, old, new) ==
  IF Len(text) < Len(old) THEN text
  ELSE IF SubSeq(text, 1, Len(old)) = old
       THEN new \o Replace(SubSeq(text, Len(old) + 1, Len(text)), old, new)
       ELSE <<Head(text)>> \o Replace(Tail(text), old, new)

RECURSIVE SplitFrom(_, _, _)
SplitFrom(text, token, acc) ==
  IF text = <<>> THEN (IF token = <<>> THEN acc ELSE Append(acc, PhoneOf(token)))
  ELSE IF Head(text) = " "
       THEN SplitFrom(Tail(text), <<>>, IF token = <<>> THEN acc ELSE Append(acc, PhoneOf(token)))
       ELSE SplitFrom(Tail(text), Append(token, Head(text)), acc)

\* text.split(): the tokens between runs of spaces
Split(text) == SplitFrom(text, <<>>, <<>>)

\* 'old' in text
Contains(text, old) == search(ReStr(old), text)

(***************************************************************************)
(* The era stages.  A stage is the ordered list of its steps: calls of     *)
(* sound_change (SC), and substring rewrites of the joined text (RW:       *)
(* ' '.join(pron).replace(old, new)... .split()).                          *)
(***************************************************************************)
SC(phone_maps, prior_context, posterior_context) ==
  [kind |-> "sound_change", phone_maps |-> phone_maps, prior |-> prior_context,
   posterior |-> posterior_context]

\* replacements is the sequence of the <<old, new>> of the chained replace calls
RW(replacements) == [kind |-> "rewrite", replacements |-> replacements]

RECURSIVE ReplaceAll(_, _)
ReplaceAll(text, replacements) ==
  IF replacements = <<>> THEN text
  ELSE ReplaceAll(Replace(text, Head(replacements)[1], Head(replacements)[2]),
                  Tail(replacements))

ApplyStep(pron, step) ==
  IF step.kind = "sound_change"
  THEN sound_change(pron, step.phone_maps, step.prior, step.posterior)
  ELSE Split(ReplaceAll(Join(pron), step.replacements))

RECURSIVE ApplySteps(_, _)
\* the steps applied in order, each to the output of the one before
ApplySteps(pron, steps) ==
  IF steps = <<>> THEN pron
  ELSE LET new_pron == ApplyStep(pron, Head(steps))
       IN  IF new_pron = pron   \* the step changed nothing
           THEN ApplySteps(pron, Tail(steps))
           ELSE ApplySteps(new_pron, Tail(steps))

\* frequent context patterns
\* '^$'
EMPTY == ReSeq(<<ReBol, ReEol>>)
\* '^' + pattern
StartsWith(pattern) == ReSeq(<<ReBol, pattern>>)
\* '.*' + pattern + '$'  (and pattern + '$', which search finds in the same texts)
EndsWith(pattern) == ReSeq(<<ANY, pattern, ReEol>>)
\* one character
Ch(c) == ReStr(<<c>>)

dict_h_deletion == ("h1" :> "" @@ "h2" :> "" @@ "h3" :> "" @@ "\\H" :> "")

NotLaryngeal(phone) == phone \notin DOMAIN dict_h_deletion

\* Laryngeal deletion
late_pie_changes(pron) == SelectSeq(pron, NotLaryngeal)

dict_grimm1 == ("p" :> "f" @@ "t" :> "T" @@ "k_>" :> "x" @@ "k" :> "x" @@ "kw" :> "xw")
dict_grimm2 == ("b" :> "p" @@ "d" :> "t" @@ "g_>" :> "k" @@ "g" :> "k" @@ "gw" :> "kw")
dict_grimm3 == ("bh" :> "v" @@ "dh" :> "D" @@ "g_>h" :> "G" @@ "gh" :> "G" @@ "gwh" :> "Gw")

\* '(.*[^s]|^$)'
GRIMM1_PRIOR == ReAlt(<<ReSeq(<<ANY, ReNotIn({"s"})>>), EMPTY>>)

grimm_steps ==
  << SC(dict_grimm1, GRIMM1_PRIOR, ANY),
     SC(dict_grimm2, ANY, ANY),
     SC(dict_grimm3, ANY, ANY) >>

\* Grimm's Law
grimm_changes(pron) == ApplySteps(pron, grimm_steps)

dict_verner == ("s" :> "z" @@ "f" :> "v" @@ "x" :> "Z" @@ "xw" :> "Zw")

\* '.*' + VOWEL_PATTERN + '.* .*'
VERNER_PRIOR == ReSeq(<<ANY, VOWEL_PATTERN, ANY, Ch(" "), ANY>>)

\* variant: the prior pattern asks for a vowel only, '.*' + VOWEL_PATTERN + '.*'
verner_changes_any_prior_vowel(grimm_pron) ==
  sound_change(grimm_pron, dict_verner, ReSeq(<<ANY, VOWEL_PATTERN, ANY>>), ANY)

\* Verner's Law (the call inside generate_entry)
verner_changes(grimm_pron) == sound_change(grimm_pron, dict_verner, VERNER_PRIOR, ANY)

\* '^(n|m) ' + CONSONANT_PATTERN
NASAL_CONS == ReSeq(<<ReBol, ReToks({"n", "m"}), Ch(" "), CONSONANT_PATTERN>>)
\* '.*(i|i:|j)'
LATER_I_J == ReSeq(<<ANY, ReToks({"i", "i:", "j"})>>)

proto_germanic_steps ==
  << SC("o" :> "a", ANY, ANY),
     SC("u" :> "o", ANY, NASAL_CONS),
     SC("e" :> "i", ANY, NASAL_CONS),
     SC("e" :> "i", ANY, LATER_I_J),
     SC("a:" :> "o:", ANY, ANY),
     RW(<< <<Join(<<"a", "n", "x">>), CharsOf["a:"]>> >>),
     SC("i" :> "", ReSeq(<<ReStr(CharsOf["e:"]), ReEol>>), ANY),
     SC("eI:" :> "eI" @@ "ai:" :> "ai" @@ "oi:" :> "oi" @@
        "eu:" :> "eu" @@ "au:" :> "au" @@ "ou:" :> "ou", ANY, ANY),
     SC("oi" :> "ai" @@ "ou" :> "au" @@ "eI" :> "i:", ANY, ANY),
     SC("eu" :> "iu", ANY, LATER_I_J) >>

\* Proto-Germanic changes
proto_germanic_changes(pron) == ApplySteps(pron, proto_germanic_steps)

old_english_steps ==
  << SC("Gw" :> "G", ANY, StartsWith(Ch("u"))),
     SC("Gw" :> "w", ANY, ANY),
     SC("G" :> "j", EndsWith(ReToks({"i", "i:", "j"})), ANY),
     SC("G" :> "j", ANY, ReSeq(<<ReBol, ReToks({"i", "i:", "j"}), ANY>>)),
     SC("G" :> "g", EMPTY, ANY),
     SC("G" :> "g", EndsWith(Ch("n")), ANY),
     SC("G" :> "x", ANY, EMPTY),
     SC("v" :> "b", EMPTY, ANY),
     SC("v" :> "f", EndsWith(VOICELESS_PATTERN), EMPTY),
     SC("v" :> "f", EndsWith(VOICELESS_PATTERN), ReSeq(<<ReBol, VOICELESS_PATTERN, ANY>>)),
     SC("D" :> "d", ANY, ANY),
     SC("x" :> "h", ANY, StartsWith(VOICED_PATTERN)),
     SC("h" :> "", EndsWith(VOWEL_PATTERN), StartsWith(VOWEL_PATTERN)),
     SC("z" :> "r\\", EndsWith(VOWEL_PATTERN), ANY),
     SC("z" :> "", EndsWith(CONSONANT_PATTERN), EMPTY),
     SC("a" :> "ae", ANY, ReSeq(<<ReBol, RePlus(ReNotIn({"n", "a", "o", "u"})), ReEol>>)),
     SC("a:" :> "o:", ANY, ANY),
     SC("ai" :> "a:" @@ "au" :> "ea" @@ "eu" :> "eo:" @@ "iu" :> "eo:", ANY, ANY) >>

\* Old English changes
old_english_changes(pron) == ApplySteps(pron, old_english_steps)

dict_palatal_umlaut ==
  ("a" :> "e" @@ "ae" :> "e" @@ "o" :> "e" @@ "u" :> "y" @@
   "a:" :> "ae:" @@ "o:" :> "e:" @@ "u:" :> "y:" @@
   "ea" :> "ie" @@ "eo" :> "ie" @@ "io" :> "ie")

\* '^' + CONSONANT_PATTERN + '.*[i|i:|j].*'
PALATAL_POSTERIOR ==
  ReSeq(<<ReBol, CONSONANT_PATTERN, ANY, ReIn({"i", "|", ":", "j"}), ANY>>)

late_old_english_steps ==
  << SC(dict_palatal_umlaut, ANY, PALATAL_POSTERIOR),
     SC("e" :> "eo" @@ "i" :> "io", ANY,
        ReSeq(<<ReBol, ReIn({"v", "l", "r"}), Ch(" "), ReIn({"a", "o", "u"})>>)),
     SC("i" :> "io" @@ "e" :> "eo" @@ "ae" :> "ea" @@ "a" :> "ea" @@
        "i:" :> "eo" @@ "io:" :> "eo:",
        ANY, ReSeq(<<ReBol, ReIn({"r", "l", "h", "x"}), CONSONANT_PATTERN>>)) >>

\* Late Old English changes
late_old_english_changes(pron) == ApplySteps(pron, late_old_english_steps)

(***************************************************************************)
(* Python indexing.  A subscript out of range raises IndexError: every     *)
(* helper that subscripts has a companion predicate, <helper>_raises,      *)
(* that follows the same guards in the same (short-circuit) order and says *)
(* whether a subscript the code evaluates is out of range.                 *)
(***************************************************************************)
\* seq[k] is defined: k counts from 0, a negative k from the end
IndexOK(seq, k) == -Len(seq) <= k /\ k < Len(seq)

\* seq[k]
Item(seq, k) == IF k >= 0 THEN seq[k + 1] ELSE seq[Len(seq) + k + 1]

\* phone[-1] == ':'
EndsLong(phone) == Item(CharsOf[phone], -1) = ":"

\* phone + ':'
Lengthen(phone) == PhoneOf(CharsOf[phone] \o <<":">>)

\* phone[:-1]
Shorten(phone) == PhoneOf(SubSeq(CharsOf[phone], 1, Len(CharsOf[phone]) - 1))

\* Middle English Vowel Lengthening
me_vowel_lengthening(pron) ==
  [i \in 1..Len(pron) |->
     LET count == i - 1
         phone == pron[i]
     IN IF count < Len(pron) - 2
        THEN IF phone \in vowels /\ Item(pron, count + 1) \in {"r\\", "l", "m", "n"}
                /\ Item(pron, count + 2) \in {"b", "d", "g"} /\ ~EndsLong(phone)
             THEN Lengthen(Item(pron, count))
             ELSE phone
        ELSE phone]

me_vowel_lengthening_raises(pron) ==
  \E count \in 0..(Len(pron) - 1) :
     LET phone == pron[count + 1]
     IN count < Len(pron) - 2 /\ phone \in vowels
        /\ (\/ ~IndexOK(pron, count + 1)
            \/ /\ Item(pron, count + 1) \in {"r\\", "l", "m", "n"}
               /\ \/ ~IndexOK(pron, count + 2)
                  \/ /\ Item(pron, count + 2) \in {"b", "d", "g"}
                     /\ ~IndexOK(CharsOf[phone], -1))

\* Middle English Vowel Shortening
me_vowel_shortening(pron) ==
  [i \in 1..Len(pron) |->
     LET count == i - 1
         phone == pron[i]
     IN IF count < Len(pron) - 2
        THEN IF phone \in vowels /\ Item(pron, count + 1) \in {"s", "f"}
                /\ Item(pron, count + 2) = "t" /\ EndsLong(Item(pron, count))
             THEN Shorten(Item(pron, count))
             ELSE phone
        ELSE phone]

me_vowel_shortening_raises(pron) ==
  \E count \in 0..(Len(pron) - 1) :
     LET phone == pron[count + 1]
     IN count < Len(pron) - 2 /\ phone \in vowels
        /\ (\/ ~IndexOK(pron, count + 1)
            \/ /\ Item(pron, count + 1) \in {"s", "f"}
               /\ \/ ~IndexOK(pron, count + 2)
                  \/ /\ Item(pron, count + 2) = "t"
                     /\ ~IndexOK(CharsOf[Item(pron, count)], -1))

\* '.*' + VOWEL_PATTERN + '.* .*' + VOWEL_PATTERN
two_syll_pattern == ReSeq(<<ANY, VOWEL_PATTERN, ANY, ReStr(<<" ">>), ANY, VOWEL_PATTERN>>)

RECURSIVE second_lengthening_loop(_, _, _, _)
\* the loop over pron that lengthens the first vowel
second_lengthening_loop(pron, k, found_first_vowel, new_phone) ==
  IF k > Len(pron) THEN new_phone
  ELSE LET phone == pron[k]
       IN IF phone \in vowels /\ ~found_first_vowel
          THEN second_lengthening_loop(pron, k + 1, TRUE,
                  Append(new_phone, IF ~EndsLong(phone) THEN Lengthen(phone) ELSE phone))
          ELSE second_lengthening_loop(pron, k + 1, found_first_vowel,
                  Append(new_phone, phone))

\* variant: the first vowel of a two-syllable word is lengthened whether or
\* not the word ends in a vowel; only a final vowel is deleted
me_second_lengthening_always(pron) ==
  IF search(two_syll_pattern, Join(pron))
  THEN LET new_phone == second_lengthening_loop(pron, 1, FALSE, <<>>)
       IN IF Item(pron, -1) \in vowels
          THEN SubSeq(new_phone, 1, Len(new_phone) - 1)
          ELSE new_phone
  ELSE pron

\* Middle English Second Lengthening
me_second_lengthening(pron) ==
  IF search(two_syll_pattern, Join(pron))
  THEN IF Item(pron, -1) \in vowels
       THEN LET new_phone == second_lengthening_loop(pron, 1, FALSE, <<>>)
            IN SubSeq(new_phone, 1, Len(new_phone) - 1)
       ELSE pron
  ELSE pron

\* variant: pron[-1] is read before the two-syllable test
me_second_lengthening_raises_unguarded(pron) == ~IndexOK(pron, -1)

me_second_lengthening_raises(pron) ==
  search(two_syll_pattern, Join(pron)) /\ ~IndexOK(pron, -1)

dip_i == ("ae" :> "ai" @@ "e" :> "eI" @@ "i" :> "i" @@ "o" :> "oi" @@ "u" :> "ui")
dip_u == ("o" :> "ou" @@ "i" :> "iu" @@ "a" :> "au" @@ "e" :> "eu" @@ "u" :> "u")

RECURSIVE diphthongization_loop(_, _, _)
\* the while loop of me_diphthongization from cursor phone on: the list it
\* builds, and whether a subscript it evaluates is out of range
diphthongization_loop(pron, phone, new_phone) ==
  IF ~(0 <= phone /\ phone < Len(pron)) THEN [new_phone |-> new_phone, raises |-> FALSE]
  ELSE IF phone = Len(pron) - 1
  THEN diphthongization_loop(pron, phone + 1, Append(new_phone, Item(pron, phone)))
  ELSE IF ~IndexOK(CharsOf[Item(pron, phone)], -1)
  THEN [new_phone |-> new_phone, raises |-> TRUE]
  ELSE
    LET p_lookup == IF EndsLong(Item(pron, phone)) THEN Shorten(Item(pron, phone))
                    ELSE Item(pron, phone)
    IN IF p_lookup \in DOMAIN dip_i /\ ~IndexOK(pron, phone + 1)
       THEN [new_phone |-> new_phone, raises |-> TRUE]
       ELSE IF p_lookup \in DOMAIN dip_i /\ Item(pron, phone + 1) \in {"j", "h"}
       THEN diphthongization_loop(pron, phone + 2, Append(new_phone, dip_i[p_lookup]))
       ELSE IF p_lookup \in DOMAIN dip_u /\ ~IndexOK(pron, phone + 1)
       THEN [new_phone |-> new_phone, raises |-> TRUE]
       ELSE IF p_lookup \in DOMAIN dip_u /\ Item(pron, phone + 1) \in {"G", "w"}
       THEN diphthongization_loop(pron, phone + 2, Append(new_phone, dip_u[p_lookup]))
       ELSE diphthongization_loop(pron, phone + 1, Append(new_phone, Item(pron, phone)))

\* Middle English Diphthongization
me_diphthongization(pron) == diphthongization_loop(pron, 0, <<>>).new_phone

me_diphthongization_raises(pron) == diphthongization_loop(pron, 0, <<>>).raises

\* the first three calls of middle_english_changes: the vowel mergers
me_merger_steps ==
  << SC("y" :> "i" @@ "ae" :> "a", ANY, ANY),
     SC("y:" :> "i:" @@ "ae:" :> "E:" @@ "a:" :> "O:", ANY, ANY),
     SC("ea" :> "a" @@ "eo" :> "e" @@ "ie" :> "i", ANY, ANY) >>

\* 'ri > ir after consonant': the metathesis block of middle_english_changes
me_metathesis(me_pron) ==
  IF Contains(Join(me_pron), Join(<<"r\\", "i">>))
  THEN Split(Replace(
         Join(sound_change(
                Split(Replace(Join(me_pron), Join(<<"r\\", "i">>), CharsOf["r\\_i"])),
                "r\\_i" :> "i_r\\", ReSeq(<<CONSONANT_PATTERN, ReEol>>), ANY)),
         <<"_">>, <<" ">>))
  ELSE me_pron

\* the combinatory changes: e > a before r, e > i before [Nn][kgdt]
me_combinatory_steps ==
  << SC("e" :> "a", ANY, StartsWith(Ch("r"))),
     SC("e" :> "i", ANY, ReSeq(<<ReBol, ReIn({"N", "n"}), ReIn({"k", "g", "d", "t"})>>)) >>

\* the steps of middle_english_changes after me_diphthongization
me_consonant_steps ==
  << RW(<< <<Join(<<"s", "k_>">>), CharsOf["s_k_>"]>> >>),
     SC("s_k_>" :> "tS", ANY, ANY),
     SC("k_>" :> "tS" @@ "G" :> "w", ANY, ANY),
     SC("h" :> "", ANY, StartsWith(ReIn({"l", "r", "n"}))),
     SC("x" :> "h", ANY, StartsWith(Ch("w"))),
     SC("xw" :> "w", ANY, ANY) >>

\* what middle_english_changes hands to me_vowel_lengthening, ..., and to
\* me_diphthongization
me_to_lengthening(pron) == ApplySteps(pron, me_merger_steps)
me_to_shortening(pron) == me_vowel_lengthening(me_to_lengthening(pron))
me_to_second_lengthening(pron) == me_vowel_shortening(me_to_shortening(pron))
me_to_diphthongization(pron) ==
  me_metathesis(ApplySteps(me_second_lengthening(me_to_second_lengthening(pron)),
                           me_combinatory_steps))

\* Changes in Middle English
middle_english_changes(pron) ==
  ApplySteps(me_diphthongization(me_to_diphthongization(pron)), me_consonant_steps)

\* whether middle_english_changes raises: whether one of its helpers does,
\* each on the sequence the stage hands to it
middle_english_changes_raises(pron) ==
  \/ me_vowel_lengthening_raises(me_to_lengthening(pron))
  \/ me_vowel_shortening_raises(me_to_shortening(pron))
  \/ me_second_lengthening_raises(me_to_second_lengthening(pron))
  \/ me_diphthongization_raises(me_to_diphthongization(pron))

great_vowel_shift ==
  ("i:" :> "aI" @@ "e:" :> "i" @@ "E:" :> "i" @@ "u" :> "au" @@ "oU" :> "u:" @@
   "O" :> "ou" @@ "A:" :> "ae" @@ "ae:" :> "eI")

RECURSIVE vowel_reduction_loop(_, _, _, _)
\* every vowel after the first becomes '@'
vowel_reduction_loop(emod_pron, k, found_first_vowel, new_pron) ==
  IF k > Len(emod_pron) THEN new_pron
  ELSE IF emod_pron[k] \notin vowels
       THEN vowel_reduction_loop(emod_pron, k + 1, found_first_vowel,
                                 Append(new_pron, emod_pron[k]))
       ELSE IF ~found_first_vowel
       THEN vowel_reduction_loop(emod_pron, k + 1, TRUE, Append(new_pron, emod_pron[k]))
       ELSE vowel_reduction_loop(emod_pron, k + 1, found_first_vowel, Append(new_pron, "@"))

RECURSIVE StripChars(_, _)
\* cs.strip(c)
StripChars(cs, c) ==
  IF cs = <<>> THEN cs
  ELSE IF Head(cs) = c THEN StripChars(Tail(cs), c)
  ELSE IF cs[Len(cs)] = c THEN StripChars(SubSeq(cs, 1, Len(cs) - 1), c)
  ELSE cs

\* [p.strip(':') if p in vowels else p for p in emod_pron]
strip_length_markers(emod_pron) ==
  [k \in 1..Len(emod_pron) |->
     IF emod_pron[k] \in vowels THEN PhoneOf(StripChars(CharsOf[emod_pron[k]], ":"))
     ELSE emod_pron[k]]

\* ['IO' if p == 'io' else p for p in emod_pron]
io_to_IO(emod_pron) ==
  [k \in 1..Len(emod_pron) |-> IF emod_pron[k] = "io" THEN "IO" ELSE emod_pron[k]]

\* early_modern_english_changes up to the assibilations
emod_steps ==
  << SC("a" :> "O:", ANY, ReSeq(<<ReBol, Ch("l"), ANY>>)),
     SC("a" :> "ae", ANY, ANY),
     SC("u" :> "V", EndsWith(ReIn({"p", "f", "w", "b"})), ANY),
     SC("u" :> "V", ANY, ReSeq(<<ReBol, ReIn({"l", "S"}), ReEol>>)),
     SC(great_vowel_shift, ANY, ANY),
     SC("ai" :> "eI" @@ "au" :> "O" @@ "iu" :> "ju" @@ "eu" :> "ju" @@
        "Eu" :> "ju" @@ "Ou" :> "oU" @@ "ui" :> "OI", ANY, ANY),
     RW(<< <<CharsOf["iu"], Join(<<"j", "u">>)>>,
           <<CharsOf["eu"], Join(<<"j", "u">>)>>,
           <<CharsOf["Eu"], Join(<<"j", "u">>)>>,
           <<CharsOf["ju"], Join(<<"j", "u">>)>> >>),
     SC("f" :> "v" @@ "T" :> "D" @@ "s" :> "z" @@ "tS" :> "dZ",
        ReSeq(<<ANY, VOWEL_PATTERN, ANY, Ch(" "), ANY, VOWEL_PATTERN, ANY>>), ANY),
     SC("x" :> "f", EndsWith(ReStr(CharsOf["ae"])), ANY),
     SC("x" :> "", ANY, ANY),
     SC("b" :> "", EndsWith(Ch("m")), ANY),
     RW(<< <<Join(<<"t", "j">>), CharsOf["tS"] \o <<" ">>>> >>),
     RW(<< <<Join(<<"d", "j">>), CharsOf["dZ"] \o <<" ">>>> >>),
     RW(<< <<Join(<<"s", "j">>), CharsOf["S"] \o <<" ">>>> >>),
     RW(<< <<Join(<<"z", "j">>), CharsOf["Z"] \o <<" ">>>> >>) >>

\* the legibility tweaks that close early_modern_english_changes
emod_tweak_steps ==
  << RW(<< <<CharsOf["kw"], Join(<<"k", "w">>)>> >>),
     RW(<< <<CharsOf["gw"], Join(<<"g", "w">>)>> >>) >>

\* Changes in Early Modern English
early_modern_english_changes(pron) ==
  io_to_IO(ApplySteps(
    strip_length_markers(vowel_reduction_loop(ApplySteps(pron, emod_steps), 1, FALSE, <<>>)),
    emod_tweak_steps))

(***************************************************************************)
(* The spelling generator.  A spelling, like a key of the p2g model, is a  *)
(* string, kept as the sequence of its characters.  The model maps a key   *)
(* to the list of its (letters, count) items in the order of the dict.     *)
(***************************************************************************)
RECURSIVE pron_breaker(_)
RECURSIVE pron_breaker_loop(_, _)
\* what the for loop of pron_breaker yields from index i on
pron_breaker_loop(pron, i) ==
  IF i >= Len(pron) THEN <<>>
  ELSE LET start == SubSeq(pron, 1, i)
           end == SubSeq(pron, i + 1, Len(pron))
           splits == pron_breaker(end)
       IN << <<start, end>> >>
          \o [k \in 1..Len(splits) |-> <<start>> \o splits[k]]
          \o pron_breaker_loop(pron, i + 1)

\* list(pron_breaker(pron)): the chunkings in the order they are yielded
pron_breaker(pron) ==
  (IF Len(pron) = 1 THEN << <<pron>> >> ELSE <<>>) \o pron_breaker_loop(pron, 1)

sampa_map ==
  ("e" :> "eI" @@ "u:" :> "u" @@ "a:" :> "A" @@ "iu" :> "ju" @@ "au" :> "aU" @@
   "io" :> "IO" @@ "eu" :> "ju" @@ "o:" :> "o" @@ "i:" :> "i" @@ "e:" :> "E" @@
   "a" :> "A" @@ "ae" :> "eI")

\* [sampa_map[p] if p in sampa_map else p for p in pron]
sampa_pron(pron) ==
  [k \in 1..Len(pron) |-> IF pron[k] \in DOMAIN sampa_map THEN sampa_map[pron[k]]
                          ELSE pron[k]]

RECURSIVE Concat(_)
\* ''.join(strings)
Concat(strings) ==
  IF strings = <<>> THEN <<>> ELSE Head(strings) \o Concat(Tail(strings))

\* ''.join(phone_seq_list)
phone_seq(phone_seq_list) ==
  Concat([k \in 1..Len(phone_seq_list) |-> CharsOf[phone_seq_list[k]]])

\* the coverage test: every chunk of broken_pron is a key of the model
covered(broken_pron, model) ==
  \A k \in 1..Len(broken_pron) : phone_seq(broken_pron[k]) \in DOMAIN model

\* sorted(items, reverse=True, key=lambda x: x[1])[0]: the first item, in the
\* order of the dict, among those of the highest count
top_item(items) ==
  LET best == CHOOSE k \in 1..Len(items) :
                /\ \A j \in 1..Len(items) : items[j][2] <= items[k][2]
                /\ \A j \in 1..(k - 1) : items[j][2] < items[k][2]
  IN items[best]

\* the list phone_seqs: the top item of every chunk
phone_seqs(broken_pron, model) ==
  [k \in 1..Len(broken_pron) |-> top_item(model[phone_seq(broken_pron[k])])]

RECURSIVE SumCounts(_)
SumCounts(items) == IF items = <<>> THEN 0 ELSE Head(items)[2] + SumCounts(Tail(items))

\* spelling_score, the quotient kept as <<numerator, denominator>>
spelling_score(broken_pron, model) ==
  <<SumCounts(phone_seqs(broken_pron, model)), Len(broken_pron)>>

\* score x > score y
ScoreAbove(x, y) == x[1] * y[2] > y[1] * x[2]

\* ''.join([l[0] for l in phone_seqs])
raw_spelling(broken_pron, model) ==
  LET items == phone_seqs(broken_pron, model)
  IN Concat([k \in 1..Len(items) |-> items[k][1]])

sonorant_letters == {"w", "r", "l", "m", "n"}
vowel_letters == {"a", "e", "i", "o", "u", "y"}

\* variant: the final e is appended before the silent e is inserted
touch_up_append_first(new_spelling, e_flag) ==
  LET appended ==
        IF e_flag /\ Item(new_spelling, -1) # "e" THEN new_spelling \o <<"e">>
        ELSE new_spelling
  IN IF Item(appended, -1) \in sonorant_letters
        /\ Item(appended, -2) \notin vowel_letters
     THEN SubSeq(appended, 1, Len(appended) - 1) \o <<"e">> \o <<Item(appended, -1)>>
     ELSE appended

\* the two touch-ups of a new_spelling
touch_up(new_spelling, e_flag) ==
  LET inserted ==
        IF Item(new_spelling, -1) \in sonorant_letters
           /\ Item(new_spelling, -2) \notin vowel_letters
        THEN SubSeq(new_spelling, 1, Len(new_spelling) - 1)
             \o <<"e">> \o <<Item(new_spelling, -1)>>
        ELSE new_spelling
  IN IF e_flag /\ Item(inserted, -1) # "e" THEN inserted \o <<"e">> ELSE inserted

\* whether a subscript of the touch-ups is out of range
touch_up_raises(new_spelling) ==
  \/ ~IndexOK(new_spelling, -1)
  \/ Item(new_spelling, -1) \in sonorant_letters /\ ~IndexOK(new_spelling, -2)

RECURSIVE spelling_loop(_, _, _, _, _)
\* the loop of generate_spelling over combinations from index k on: the list
\* spellings as it stands when the loop ends or raises, and whether it raises
spelling_loop(combos, k, e_flag, model, done) ==
  IF k > Len(combos) THEN [spellings |-> done, raises |-> FALSE]
  ELSE IF ~covered(combos[k], model)
  THEN spelling_loop(combos, k + 1, e_flag, model, done)
  ELSE IF touch_up_raises(raw_spelling(combos[k], model))
  THEN [spellings |-> done, raises |-> TRUE]
  ELSE spelling_loop(combos, k + 1, e_flag, model,
         Append(done, <<touch_up(raw_spelling(combos[k], model), e_flag),
                        spelling_score(combos[k], model)>>))

\* where entry k of scored stands after
\* sorted(scored, reverse=True, key=lambda x: x[1]), which keeps entries of
\* equal score in their order
sorted_rank(scored, k) ==
  Cardinality({j \in 1..Len(scored) :
                 \/ ScoreAbove(scored[j][2], scored[k][2])
                 \/ j < k /\ ~ScoreAbove(scored[k][2], scored[j][2])}) + 1

sorted_by_score(scored) ==
  [r \in 1..Len(scored) |->
     scored[CHOOSE k \in 1..Len(scored) : sorted_rank(scored, k) = r]]

\* the [:5] of top_five
TOP_SPELLINGS == 5

RECURSIVE DropRepeats(_)
\* seq without the later occurrences of its elements
DropRepeats(seq) ==
  IF seq = <<>> THEN <<>>
  ELSE LET front == DropRepeats(SubSeq(seq, 1, Len(seq) - 1))
       IN IF \E k \in 1..Len(front) : front[k] = seq[Len(seq)] THEN front
          ELSE Append(front, seq[Len(seq)])

\* variant: the five best among the distinct spellings
top_five_distinct(scored) ==
  LET ranked == sorted_by_score(scored)
      strings == DropRepeats([r \in 1..Len(ranked) |-> ranked[r][1]])
  IN SubSeq(strings, 1, IF Len(strings) < TOP_SPELLINGS THEN Len(strings)
                        ELSE TOP_SPELLINGS)

\* [x[0] for x in sorted(...)[:5]]
top_five_of(scored) ==
  LET ranked == sorted_by_score(scored)
  IN [r \in 1..(IF Len(ranked) < TOP_SPELLINGS THEN Len(ranked) ELSE TOP_SPELLINGS) |->
        ranked[r][1]]

\* generate_spelling(pron, final_e) with the p2g model: the normalized pron,
\* its locals when it returns or raises, and whether it raises
generate_spelling(pron, e_flag, model) ==
  LET loop == spelling_loop(pron_breaker(sampa_pron(pron)), 1, e_flag, model, <<>>)
  IN [pron |-> sampa_pron(pron),
      combinations |-> pron_breaker(sampa_pron(pron)),
      spellings |-> loop.spellings,
      raises |-> loop.raises,
      top_five |-> IF loop.raises THEN <<>> ELSE top_five_of(loop.spellings)]

(***************************************************************************)
(* Bounds of the model.                                                    *)
(***************************************************************************)
\* longest phone sequence handed to sound_change on its own
MaxEngineLen == 3
\* longest phone sequence handed to a stage
MaxLen == 3

\* longest pronunciation handed to the spelling generator
MaxSpellLen == 4

\* all sequences over alphabet of length 0..n
SeqsUpTo(alphabet, n) == UNION {[1..k -> alphabet] : k \in 0..n}

(***************************************************************************)
(* SpecEngine: sound_change called on its own, with rules of the program.  *)
(***************************************************************************)
\* rules that the stages pass to sound_change (phone_maps, prior, posterior)
EngineRules ==
  << grimm_steps[1],            \* Grimm 1, except after s
     grimm_steps[2],            \* Grimm 2, unconditioned
     SC(dict_verner, VERNER_PRIOR, ANY),
     proto_germanic_steps[7],   \* i deleted after e:
     old_english_steps[3],      \* G > j after i, j
     old_english_steps[13],     \* h disappears between vowels
     old_english_steps[16] >>   \* a > ae unless n, a, o, u follows

EnginePhones == {"a", "e:", "i", "G", "h", "s", "p", "d"}

InitEngine ==
  /\ op = "none"
  /\ inp \in SeqsUpTo(EnginePhones, MaxEngineLen)
  /\ out = <<>>
  /\ err = "none"
  /\ rule = 0
  /\ mode = "call"
  /\ final_e = FALSE
  /\ spelling_model = <<>>
  /\ combinations = <<>>
  /\ spellings = <<>>
  /\ top_five = <<>>
  /\ spelling = <<>>

\* one call sound_change(inp, phone_maps, prior, posterior)
SoundChange(r) ==
  /\ op = "none"
  /\ op' = "sound_change"
  /\ rule' = r
  /\ out' = sound_change(inp, EngineRules[r].phone_maps, EngineRules[r].prior,
                         EngineRules[r].posterior)
  /\ UNCHANGED <<inp, err, mode>>
  /\ UNCHANGED spell_vars

NextEngine == \E r \in DOMAIN EngineRules : SoundChange(r)

SpecEngine == InitEngine /\ [][NextEngine]_vars

(***************************************************************************)
(* Spec: the era stages.  In mode "entry" a PIE pronunciation runs through *)
(* the stages in the order of generate_entry; in mode "call" one stage     *)
(* function is called directly on a phone sequence.  Verner's Law is not a *)
(* function of its own and only runs inside generate_entry; the four       *)
(* Middle English helpers run inside middle_english_changes there.         *)
(***************************************************************************)
\* alphabets of the PIE pronunciations handed to generate_entry
EntryAlphabets ==
  { {"s", "p", "e", "t"},
    {"a", "s", "t", "kw"},
    {"h1", "o", "n", "gwh"} }

\* alphabets of the phone sequences handed directly to a stage function
CallAlphabets ==
  { {"a", "a:", "r\\", "d"},
    {"e:", "s", "t", "i"},
    {"e", "j", "w", "o:"},
    {"r\\", "i", "t", "k_>"},
    {"eo:", "t", "a"} }

EntryInputs == UNION {SeqsUpTo(alphabet, MaxLen) : alphabet \in EntryAlphabets}
CallInputs  == UNION {SeqsUpTo(alphabet, MaxLen) : alphabet \in CallAlphabets}

Init ==
  /\ op = "none"
  /\ \/ mode = "entry" /\ inp \in EntryInputs
     \/ mode = "call" /\ inp \in CallInputs
  /\ out = inp
  /\ err = "none"
  /\ rule = 0
  /\ final_e = FALSE
  /\ spelling_model = <<>>
  /\ combinations = <<>>
  /\ spellings = <<>>
  /\ top_five = <<>>
  /\ spelling = <<>>

\* stage name runs on the current sequence: returned is what it returns and
\* raises whether it raises instead
RunStage(name, returned, raises) ==
  /\ err = "none"
  /\ op' = name
  /\ inp' = out
  /\ err' = IF raises THEN "IndexError" ELSE "none"
  /\ out' = IF raises THEN out ELSE returned
  /\ UNCHANGED <<rule, mode, final_e, spelling_model, combinations, spellings,
                 top_five, spelling>>

\* the stage is the next one of generate_entry, or is called directly
Reached(previous) ==
  \/ mode = "entry" /\ op = previous
  \/ mode = "call" /\ op = "none"

LatePIE ==
  /\ Reached("none")
  /\ RunStage("late_pie", late_pie_changes(out), FALSE)

Grimm ==
  /\ Reached("late_pie")
  /\ RunStage("grimm", grimm_changes(out), FALSE)

Verner ==
  /\ mode = "entry" /\ op = "grimm"
  /\ RunStage("verner", verner_changes(out), FALSE)

ProtoGermanic ==
  /\ Reached("verner")
  /\ RunStage("proto_germanic", proto_germanic_changes(out), FALSE)

OldEnglish ==
  /\ Reached("proto_germanic")
  /\ RunStage("old_english", old_english_changes(out), FALSE)

LateOldEnglish ==
  /\ Reached("old_english")
  /\ RunStage("late_old_english", late_old_english_changes(out), FALSE)

MiddleEnglish ==
  /\ Reached("late_old_english")
  /\ RunStage("middle_english", middle_english_changes(out), middle_english_changes_raises(out))

MEVowelLengthening ==
  /\ mode = "call" /\ op = "none"
  /\ RunStage("me_vowel_lengthening", me_vowel_lengthening(out), me_vowel_lengthening_raises(out))

MEVowelShortening ==
  /\ mode = "call" /\ op = "none"
  /\ RunStage("me_vowel_shortening", me_vowel_shortening(out), me_vowel_shortening_raises(out))

MESecondLengthening ==
  /\ mode = "call" /\ op = "none"
  /\ RunStage("me_second_lengthening", me_second_lengthening(out), me_second_lengthening_raises(out))

MEDiphthongization ==
  /\ mode = "call" /\ op = "none"
  /\ RunStage("me_diphthongization", me_diphthongization(out), me_diphthongization_raises(out))

\* generate_entry's test 'me_pron[-1] in vowels' that sets final_e
FinalETest ==
  /\ mode = "entry" /\ op = "middle_english" /\ err = "none"
  /\ op' = "final_e"
  /\ err' = IF IndexOK(out, -1) THEN "none" ELSE "IndexError"
  /\ final_e' = (IndexOK(out, -1) /\ Item(out, -1) \in vowels)
  /\ UNCHANGED <<inp, out, rule, mode, spelling_model, combinations, spellings,
                 top_five, spelling>>

EarlyModernEnglish ==
  /\ Reached("final_e")
  /\ RunStage("early_modern_english", early_modern_english_changes(out), FALSE)

Next ==
  \/ LatePIE
  \/ Grimm
  \/ Verner
  \/ ProtoGermanic
  \/ OldEnglish
  \/ LateOldEnglish
  \/ MiddleEnglish
  \/ MEVowelLengthening
  \/ MEVowelShortening
  \/ MESecondLengthening
  \/ MEDiphthongization
  \/ FinalETest
  \/ EarlyModernEnglish

Spec == Init /\ [][Next]_vars

(***************************************************************************)
(* SpecSpell: the spelling generator.  In mode "call" pron_breaker or      *)
(* generate_spelling is called directly; in mode "entry" generate_entry    *)
(* calls generate_spelling on its Early Modern pronunciation and takes     *)
(* the first candidate.                                                    *)
(***************************************************************************)
\* phones of the Early Modern pronunciations handed to the generator
SpellPhones == {"t", "n", "e"}

\* p2g models: key -> items (letters, count) in the order of the dict
SpellingModels ==
  { \* every phone covered, and some longer keys
    ( <<"t">> :> << <<<<"t">>, 4>>, <<<<"t", "t">>, 1>> >> @@
      <<"n">> :> << <<<<"n">>, 3>> >> @@
      <<"e", "I">> :> << <<<<"a", "y">>, 2>>, <<<<"a">>, 6>>, <<<<"e", "i">>, 6>> >> @@
      <<"t", "e", "I">> :> << <<<<"t", "a">>, 1>> >> @@
      <<"e", "I", "t">> :> << <<<<"a", "t", "e">>, 7>> >> @@
      <<"t", "n">> :> << <<<<"t", "n">>, 2>> >> ),
    \* no single phone covered
    ( <<"e", "I", "t">> :> << <<<<"a", "t", "e">>, 3>> >> @@
      <<"t", "n">> :> << <<<<"t", "o", "n">>, 5>>, <<<<"t", "n">>, 5>> >> @@
      <<"n", "e", "I">> :> << <<<<"n", "e">>, 2>> >> @@
      <<"n", "e", "I", "t">> :> << <<<<"n", "e", "t">>, 1>> >> ),
    \* one phone covered
    ( <<"t">> :> << <<<<"t">>, 1>> >> @@
      <<"t", "t">> :> << <<<<"t">>, 1>>, <<<<"t", "t">>, 9>> >> ) }

InitSpell ==
  /\ op = "none"
  /\ mode \in {"call", "entry"}
  /\ inp \in SeqsUpTo(SpellPhones, MaxSpellLen)
  /\ out = <<>>
  /\ err = "none"
  /\ rule = 0
  /\ final_e \in BOOLEAN
  /\ spelling_model \in SpellingModels
  /\ combinations = <<>>
  /\ spellings = <<>>
  /\ top_five = <<>>
  /\ spelling = <<>>

\* list(pron_breaker(inp))
PronBreaker ==
  /\ mode = "call" /\ op = "none"
  /\ op' = "pron_breaker"
  /\ combinations' = pron_breaker(inp)
  /\ UNCHANGED <<inp, out, err, rule, mode, final_e, spelling_model, spellings,
                 top_five, spelling>>

\* generate_spelling(inp, final_e); top_five stays unassigned when it raises
GenerateSpelling ==
  /\ mode = "call" /\ op = "none"
  /\ op' = "generate_spelling"
  /\ LET call == generate_spelling(inp, final_e, spelling_model)
     IN /\ out' = call.pron
        /\ combinations' = call.combinations
        /\ spellings' = call.spellings
        /\ top_five' = call.top_five
        /\ err' = IF call.raises THEN "IndexError" ELSE "none"
  /\ UNCHANGED <<inp, rule, mode, final_e, spelling_model, spelling>>

\* generate_entry: pie_word['spelling'] = generate_spelling(emod_pron, final_e)[0]
EntrySpelling ==
  /\ mode = "entry" /\ op = "none"
  /\ op' = "entry_spelling"
  /\ LET call == generate_spelling(inp, final_e, spelling_model)
         raises == call.raises \/ ~IndexOK(call.top_five, 0)
     IN /\ out' = call.pron
        /\ combinations' = call.combinations
        /\ spellings' = call.spellings
        /\ top_five' = call.top_five
        /\ err' = IF raises THEN "IndexError" ELSE "none"
        /\ spelling' = IF raises THEN <<>> ELSE Item(call.top_five, 0)
  /\ UNCHANGED <<inp, rule, mode, final_e, spelling_model>>

NextSpell ==
  \/ PronBreaker
  \/ GenerateSpelling
  \/ EntrySpelling

SpecSpell == InitSpell /\ [][NextSpell]_vars

(***************************************************************************)
(* The claims.                                                             *)
(***************************************************************************)
\* position i of seq is rewritten by rule r, judged on seq itself
RewrittenAt(seq, r, i) ==
  /\ seq[i] \in DOMAIN r.phone_maps
  /\ search(r.prior, Join(SubSeq(seq, 1, i - 1)))
  /\ search(r.posterior, Join(SubSeq(seq, i + 1, Len(seq))))

\* C1: sound_change decides every position against the original input: the
\* result is the input with each position i replaced by its mapped phone
\* exactly when inp[i] is a key of the map and both contexts are found in the
\* input before and after i; the other phones are copied in order and the
\* empty replacements are dropped.
C1_OriginalContext ==
  op = "sound_change" =>
    LET r == EngineRules[rule]
        pointwise == [i \in 1..Len(inp) |->
                        IF RewrittenAt(inp, r, i) THEN r.phone_maps[inp[i]] ELSE inp[i]]
    IN out = SelectSeq(pointwise, NotEmpty)

\* C1 witness: an earlier position is rewritten or deleted, and a later key of
\* the map is left alone although the rewritten output before it would match.
C1_Witness ==
  /\ op = "sound_change"
  /\ \E i, j \in 1..Len(inp) :
       /\ i < j
       /\ RewrittenAt(inp, EngineRules[rule], i)
       /\ inp[j] \in DOMAIN EngineRules[rule].phone_maps
       /\ ~RewrittenAt(inp, EngineRules[rule], j)
       /\ search(EngineRules[rule].prior, Join(SubSeq(out, 1, j - 1)))
       /\ Len(out) = Len(inp)


\* the operations that are era stages
StageOps ==
  {"late_pie", "grimm", "verner", "proto_germanic", "old_english",
   "late_old_english", "middle_english", "me_vowel_lengthening",
   "me_vowel_shortening", "me_second_lengthening", "me_diphthongization",
   "early_modern_english"}

\* C2: every era stage, and each of the four Middle English helpers, returns
\* a phone sequence and raises nothing, whatever phone sequence it is given,
\* the empty one and the single-element ones included.
C2_StagesTotal ==
  op \in StageOps => err = "none" /\ out \in Seq(Phones \ {""})

\* C2 witness: the diphthongization scan returned on a single phone that is
\* a key of its table, the phone after it being out of range.
C2_Witness ==
  /\ op = "me_diphthongization"
  /\ Len(inp) = 1
  /\ inp[1] \in DOMAIN dip_i
  /\ err = "none"
  /\ out = inp

\* C4: at every position of the word handed to the Grimm stage, a stop of
\* the first shift table stays as it is when the phone just before it is s,
\* and becomes its fricative otherwise.
C4_UnshiftedAfterS ==
  op = "grimm" =>
    /\ Len(out) = Len(inp)
    /\ \A i \in 1..Len(inp) :
         inp[i] \in DOMAIN dict_grimm1 =>
           out[i] = IF i > 1 /\ inp[i - 1] = "s" THEN inp[i] ELSE dict_grimm1[inp[i]]

\* C5: Verner's Law voices the fricative at position i exactly when a vowel
\* phone stands at some position up to i - 2, so that a further phone
\* follows it before i; every other phone is kept, and the phones after i
\* play no part.
C5_VernerVoicing ==
  op = "verner" =>
    /\ Len(out) = Len(inp)
    /\ \A i \in 1..Len(inp) :
         out[i] = IF /\ inp[i] \in DOMAIN dict_verner
                     /\ \E j \in 1..(i - 2) : inp[j] \in vowels
                  THEN dict_verner[inp[i]]
                  ELSE inp[i]

\* C5 witness: of two fricatives of one word, the one right after the vowel
\* stays unvoiced and the one a phone further on is voiced.
C5_Witness ==
  /\ op = "verner"
  /\ \E i, j \in 1..Len(inp) :
       /\ 1 < i /\ i < j
       /\ inp[i - 1] \in vowels
       /\ inp[i] \in DOMAIN dict_verner /\ out[i] = inp[i]
       /\ inp[j] \in DOMAIN dict_verner /\ out[j] = dict_verner[inp[j]]

RECURSIVE Compositions(_)
\* every way of cutting seq into contiguous non-empty groups kept in order
Compositions(seq) ==
  IF seq = <<>> THEN {<<>>}
  ELSE UNION {{<<SubSeq(seq, 1, i)>> \o rest :
                 rest \in Compositions(SubSeq(seq, i + 1, Len(seq)))} :
              i \in 1..Len(seq)}

\* C3: for a sequence of length n >= 1 pron_breaker yields 2^(n-1) chunkings
\* and they are exactly the compositions of the sequence, the one made of
\* the whole sequence included.
C3_AllCompositions ==
  op = "pron_breaker" /\ Len(inp) >= 1 =>
    /\ Len(combinations) = 2 ^ (Len(inp) - 1)
    /\ {combinations[k] : k \in 1..Len(combinations)} = Compositions(inp)

\* C6: generate_spelling returns at most five spellings, and an accepted
\* partition of the normalized pronunciation has its spelling returned unless
\* five entries that score at least as high were there to be returned.
C6_BestAccepted ==
  op = "generate_spelling" /\ err = "none" =>
    /\ Len(top_five) <= TOP_SPELLINGS
    /\ \A c \in Compositions(out) :
         Len(out) >= 1 /\ covered(c, spelling_model) =>
           \/ Cardinality({k \in 1..Len(spellings) :
                 ~ScoreAbove(spelling_score(c, spelling_model), spellings[k][2])})
                >= TOP_SPELLINGS
           \/ /\ ~touch_up_raises(raw_spelling(c, spelling_model))
              /\ \E r \in 1..Len(top_five) :
                   top_five[r] = touch_up(raw_spelling(c, spelling_model), final_e)

\* the entries of combinations that pass the coverage test
CoveredNow(broken_pron) == covered(broken_pron, spelling_model)

\* C7 (as stated): no string appears twice in the list generate_spelling
\* returns.
C7_PairwiseDistinct ==
  op = "generate_spelling" =>
    \A i, j \in 1..Len(top_five) : i # j => top_five[i] # top_five[j]

\* C7 (amended): generate_spelling returns one string for each accepted entry
\* of the enumeration, five at most, equal strings not collapsed: the list
\* holds min(5, number of accepted entries) strings, each the spelling of an
\* entry.
C7_OnePerAcceptedEntry ==
  op = "generate_spelling" /\ err = "none" =>
    LET accepted == Len(SelectSeq(combinations, CoveredNow))
    IN /\ Len(spellings) = accepted
       /\ Len(top_five) = IF accepted < TOP_SPELLINGS THEN accepted ELSE TOP_SPELLINGS
       /\ \A r \in 1..Len(top_five) :
            \E k \in 1..Len(spellings) : spellings[k][1] = top_five[r]

\* C7 witness: two different accepted partitions have the same spelling and
\* the returned list holds that string twice.
C7_Witness ==
  /\ op = "generate_spelling" /\ err = "none"
  /\ \E a, b \in 1..Len(combinations) :
       /\ combinations[a] # combinations[b]
       /\ CoveredNow(combinations[a]) /\ CoveredNow(combinations[b])
       /\ raw_spelling(combinations[a], spelling_model)
            = raw_spelling(combinations[b], spelling_model)
       /\ \E i, j \in 1..Len(top_five) :
            /\ i # j
            /\ top_five[i] = top_five[j]
            /\ top_five[i] = touch_up(raw_spelling(combinations[a], spelling_model),
                                      final_e)

\* C8: generate_spelling raises nothing, and for a pronunciation of length
\* >= 1 the list it returns is empty exactly when no partition of the
\* normalized pronunciation is covered by the model.
C8_NeverFails ==
  op = "generate_spelling" =>
    /\ err = "none"
    /\ Len(inp) >= 1 =>
         (top_five = <<>> <=> \A c \in Compositions(out) : ~covered(c, spelling_model))

\* C9: when generate_spelling returns the empty list, generate_entry
\* completes without raising.
C9_EmptyListHandled ==
  /\ op = "entry_spelling"
  /\ ~generate_spelling(inp, final_e, spelling_model).raises
  /\ top_five = <<>>
  => err = "none"

\* C10: every spelling generate_spelling builds is the raw concatenation of
\* the letters of an accepted entry after two touch-ups in this order: an e
\* goes in before the final letter iff that letter is one of w, r, l, m, n
\* and the letter before it is none of a, e, i, o, u, y; then an e is
\* appended iff final_e holds and the string does not end in e.  So with
\* final_e every spelling ends in e, and without it a raw spelling that ends
\* in a vowel letter is kept as it is.  The strings returned are among them.
C10_TouchUps ==
  op = "generate_spelling" =>
    /\ \A k \in 1..Len(spellings) :
         LET raw == raw_spelling(SelectSeq(combinations, CoveredNow)[k], spelling_model)
             n == Len(raw)
             new == spellings[k][1]
             insert == /\ n >= 2
                       /\ raw[n] \in {"w", "r", "l", "m", "n"}
                       /\ raw[n - 1] \notin {"a", "e", "i", "o", "u", "y"}
             mid == IF insert THEN SubSeq(raw, 1, n - 1) \o <<"e", raw[n]>> ELSE raw
             append == final_e /\ mid[Len(mid)] # "e"
         IN /\ new = IF append THEN mid \o <<"e">> ELSE mid
            /\ final_e => new[Len(new)] = "e"
            /\ ~final_e /\ raw[n] \in {"a", "e", "i", "o", "u", "y"} => new = raw
    /\ \A r \in 1..Len(top_five) :
         \E k \in 1..Len(spellings) : spellings[k][1] = top_five[r]

\* C10 witness: a returned spelling got both touch-ups, the inserted e and
\* the appended one.
C10_Witness ==
  /\ op = "generate_spelling" /\ err = "none" /\ final_e
  /\ \E k \in 1..Len(spellings) :
       LET raw == raw_spelling(SelectSeq(combinations, CoveredNow)[k], spelling_model)
           new == spellings[k][1]
       IN /\ Len(new) = Len(raw) + 2
          /\ raw[Len(raw)] \in sonorant_letters
          /\ \E r \in 1..Len(top_five) : top_five[r] = new


\* the tokens a step names as replacements
StepTokens(step) ==
  IF step.kind = "sound_change"
  THEN {step.phone_maps[p] : p \in DOMAIN step.phone_maps} \ {""}
  ELSE UNION {{Split(step.replacements[k][2])[t] :
                 t \in 1..Len(Split(step.replacements[k][2]))} :
              k \in 1..Len(step.replacements)}

\* the tokens the steps of a stage name as replacements
NamedTokens(steps) == UNION {StepTokens(steps[k]) : k \in 1..Len(steps)}

\* the replacement tokens of the three stages that rewrite the joined text
StageTokens ==
  [proto_germanic |-> NamedTokens(proto_germanic_steps),
   middle_english |->
     NamedTokens(me_merger_steps \o me_combinatory_steps \o me_consonant_steps)
       \cup {dip_i[p] : p \in DOMAIN dip_i} \cup {dip_u[p] : p \in DOMAIN dip_u}
       \cup {"i", "r\\"},
   early_modern_english |-> NamedTokens(emod_steps \o emod_tweak_steps) \cup {"@", "IO"}]

\* C11: every token a stage with substring rewrites returns is a token of
\* its input or a replacement token a rule of the stage names, a length
\* mark added or taken off apart: no rewrite cuts a token or matches inside
\* one.
C11_WholePhones ==
  op \in DOMAIN StageTokens /\ err = "none" =>
    \A k \in 1..Len(out) :
      \E p \in {inp[i] : i \in 1..Len(inp)} \cup StageTokens[op] :
        StripChars(CharsOf[out[k]], ":") = StripChars(CharsOf[p], ":")


\* the characters of phone hold the characters of a vowel token
HasVowelChars(phone) == search(VOWEL_PATTERN, CharsOf[phone])

\* the first phone of seq that is a vowel
FirstVowel(seq) ==
  CHOOSE i \in 1..Len(seq) : seq[i] \in vowels /\ \A j \in 1..(i - 1) : seq[j] \notin vowels

\* C12 (as stated): in a sequence with two vowels the first vowel is long
\* after the second lengthening whether or not the word ends in a vowel, and
\* the final phone is deleted exactly when it is a vowel.
C12_LengthensEveryTwoVowelWord ==
  /\ op = "me_second_lengthening"
  /\ \E i, j \in 1..Len(inp) : i < j /\ inp[i] \in vowels /\ inp[j] \in vowels
  => /\ EndsLong(out[FirstVowel(inp)])
     /\ Len(out) = IF inp[Len(inp)] \in vowels THEN Len(inp) - 1 ELSE Len(inp)

\* C12 (amended): the second lengthening changes a sequence only when two of
\* its phones, one after the other, hold the characters of a vowel and its
\* last phone is a vowel: then the first vowel phone gets a length mark
\* unless it has one, and the last phone is deleted.  Every other sequence,
\* a two-vowel word that ends in a consonant included, is returned as it is.
C12_SecondLengthening ==
  op = "me_second_lengthening" =>
    LET fires == /\ \E i, j \in 1..Len(inp) :
                      i < j /\ HasVowelChars(inp[i]) /\ HasVowelChars(inp[j])
                 /\ inp[Len(inp)] \in vowels
    IN /\ err = "none"
       /\ out = IF fires
                THEN [k \in 1..(Len(inp) - 1) |->
                        IF k = FirstVowel(inp) /\ ~EndsLong(inp[k])
                        THEN Lengthen(inp[k]) ELSE inp[k]]
                ELSE inp

\* C12 witness: a two-vowel word that ends in a vowel lost its final vowel
\* and had its first vowel lengthened.
C12_Witness ==
  /\ op = "me_second_lengthening"
  /\ Len(inp) = 3 /\ Len(out) = 2
  /\ inp[1] \in vowels /\ inp[3] \in vowels
  /\ ~EndsLong(inp[1]) /\ out[1] = Lengthen(inp[1])
  /\ out[2] = inp[2]


\* C13: no phone that the Early Modern English stage returns ends in the
\* length marker ':'.
C13_NoLengthMarkers ==
  op = "early_modern_english" /\ err = "none" =>
    \A k \in 1..Len(out) : ~EndsLong(out[k])


\* C14: in the Late Old English stage the palatal-umlaut rule shifts a vowel
\* of its table only when the phone after it is a consonant and some later
\* phone is i, i: or j.
C14_PalatalUmlautNeedsIJ ==
  op = "late_old_english" =>
    LET umlauted == ApplyStep(inp, late_old_english_steps[1])
    IN \A i \in 1..Len(inp) :
         umlauted[i] # inp[i] =>
           /\ i < Len(inp)
           /\ inp[i + 1] \notin vowels
           /\ \E j \in (i + 1)..Len(inp) : inp[j] \in {"i", "i:", "j"}

=============================================================================
